---- MODULE Spec2Model ----
(***************************************************************************)
(* Model of the Kyber / ML-KEM key encapsulation template                  *)
(* (kem/kyber/templates/pkg.templ.go) and of the Shamir secret sharing     *)
(* package (secretsharing/ss.go).                                          *)
(*                                                                         *)
(* Byte strings are symbolic: a field is a sequence of strings, a buffer   *)
(* is a length in bytes together with the fields laid out in it.  The      *)
(* hash, XOF and PKE are free constructors over fields, so two digests are *)
(* equal exactly when function and input are equal.                        *)
(***************************************************************************)
EXTENDS Integers, Sequences, FiniteSets, TLC

VARIABLES nist, pub, priv, wire, last, prev, ssh, pool, rec,
          shared, gor, stack

vars == <<nist, pub, priv, wire, last, prev, ssh, pool, rec,
          shared, gor, stack>>
kemVars == <<nist, pub, priv, wire, last, prev>>
ssVars == <<ssh, pool, rec>>

(***************************************************************************)
(* Bounds of the model.                                                    *)
(***************************************************************************)
\* number of distinct key seeds, and of distinct encapsulation seeds, the
\* callers and the randomness source supply
NumSeeds == 2
\* largest threshold t given to secretsharing.New
MaxT == 2
\* number of goroutines that use one key at the same time
NumGoroutines == 2

(***************************************************************************)
(* Sizes.                                                                  *)
(***************************************************************************)
CpapkeKeySeedSize == 32
CpapkeCiphertextSize == 1088
CpapkePublicKeySize == 1184
CpapkePrivateKeySize == 1152

KeySeedSize == CpapkeKeySeedSize + 32
EncapsulationSeedSize == 32
SharedKeySize == 32
CiphertextSize == CpapkeCiphertextSize
PublicKeySize == CpapkePublicKeySize
PrivateKeySize == CpapkePrivateKeySize + CpapkePublicKeySize + 64

(***************************************************************************)
(* Symbolic bytes.                                                         *)
(***************************************************************************)
\* the i-th 32-byte value a caller or the randomness source can supply
Raw(i) == <<"raw", ToString(i)>>
RawSet == {Raw(i) : i \in 1..NumSeeds}
\* the contents of the i-th key seed: the PKE seed and the suffix z
KeySeedParts == {<<Raw(i), <<"z", ToString(i)>>>> : i \in 1..NumSeeds}

\* a ‖ b for fields whose boundary is fixed by the layout
Cat(a, b) == <<"[">> \o a \o <<"|">> \o b \o <<"]">>

RECURSIVE Flat(_)
\* the bytes of a buffer: its fields one after the other
Flat(parts) ==
    IF parts = <<>> THEN <<>>
    ELSE <<"[">> \o Head(parts) \o <<"]">> \o Flat(Tail(parts))

\* a byte buffer; isNil marks a nil slice
Buf(n, parts) == [isNil |-> FALSE, len |-> n, parts |-> parts]
NilBuf == [isNil |-> TRUE, len |-> 0, parts |-> <<>>]
\* a freshly allocated (all-zero) buffer of n bytes
Zeroed(n) == Buf(n, <<>>)

\* a read of the randomness source that failed
RandFail == [fail |-> TRUE, parts |-> <<>>]
\* the randomness source is not read
NotRead == [fail |-> FALSE, parts |-> <<>>]

\* sha3.New256, sha3.New512 (two 32-byte halves), sha3.NewShake256
Hash256(x) == <<"H256(">> \o x \o <<")">>
Hash512Lo(x) == <<"H512lo(">> \o x \o <<")">>
Hash512Hi(x) == <<"H512hi(">> \o x \o <<")">>
Shake256(x) == <<"SHAKE(">> \o x \o <<")">>

(***************************************************************************)
(* The CPA-secure PKE (package pke/kyber), an ideal deterministic scheme.  *)
(***************************************************************************)
VariantTag == IF nist THEN "mlkem" ELSE "kyber"

\* cpapke.NewKeyFromSeed / NewKeyFromSeedMLKEM: the two derivations differ
CpapkeNewKeyFromSeed(d) ==
    [pk |-> <<"pk", VariantTag>> \o d, sk |-> <<"sk", VariantTag>> \o d]

\* the public key a PKE private key belongs to
CpapkePublicOf(sk) == <<"pk">> \o Tail(sk)

\* cpapke Pack: the canonical encoding of a key
CpapkePack(k) == k \o <<"canon">>
\* cpapke Unpack: decodes and normalizes, whatever the encoding
CpapkeUnpack(b) == SubSeq(b, 1, Len(b) - 1)
\* cpapke UnpackMLKEM: unpacks, then rejects an encoding that does not pack back
CpapkeUnpackMLKEM(b) ==
    [pk |-> CpapkeUnpack(b),
     err |-> IF CpapkePack(CpapkeUnpack(b)) = b THEN "" ELSE "kem.ErrPubKey"]
\* cpapke PrivateKey.Equal
CpapkeEqual(a, b) == a = b
\* the non-normalized encoding of the same key
CpapkeNonCanon(k) == k \o <<"noncanon">>

\* cpapke EncryptTo: deterministic in (pk, m, coins)
CpapkeEncrypt(pk, m, r) == <<pk, m, r, <<"0">>>>
\* cpapke DecryptTo: the message when the ciphertext was made for this key,
\* some other 32 bytes otherwise
CpapkeDecrypt(sk, c) ==
    IF c[1] = CpapkePublicOf(sk) THEN c[2]
    ELSE <<"dec(">> \o sk \o Flat(c) \o <<")">>

(***************************************************************************)
(* The KEM core (pkg.templ.go).                                            *)
(***************************************************************************)
\* type PublicKey struct { pk; hpk }; a nil pk pointer is the empty field
PublicKey(pk, hpk) == [pk |-> pk, hpk |-> hpk]
\* type PrivateKey struct { sk; pk; hpk; z }
PrivateKey(sk, pk, hpk, z) == [sk |-> sk, pk |-> pk, hpk |-> hpk, z |-> z]
ZeroPublicKey == PublicKey(<<>>, <<>>)
ZeroPrivateKey == PrivateKey(<<>>, <<>>, <<>>, <<>>)

\* the hash, PKE and randomness calls one operation made
Work(h, p, r) == [hashes |-> h, pkeCalls |-> p, randDraws |-> r]
NoWork == Work(0, 0, 0)

PanicSeedKey == "seed must be of length KeySeedSize"
PanicSeedEnc == "seed must be of length EncapsulationSeedSize"
PanicCt == "ct must be of length CiphertextSize"
PanicSs == "ss must be of length SharedKeySize"
PanicPrivBuf == "buf must be of length PrivateKeySize"
PanicPubBuf == "buf must be of length PublicKeySize"
ErrSeedSize == "kem.ErrSeedSize"
ErrCiphertextSize == "kem.ErrCiphertextSize"
ErrPubKeySize == "kem.ErrPubKeySize"
ErrPrivKeySize == "kem.ErrPrivKeySize"
ErrPubKey == "kem.ErrPubKey"
ErrPrivKey == "kem.ErrPrivKey"
ErrTypeMismatch == "kem.ErrTypeMismatch"
ErrRand == "randomness source error"
SizeFailures ==
    {PanicSeedKey, PanicSeedEnc, PanicCt, PanicSs, PanicPrivBuf, PanicPubBuf,
     ErrSeedSize, ErrCiphertextSize, ErrPubKeySize, ErrPrivKeySize}

\* func NewKeyFromSeed(seed []byte) (*PublicKey, *PrivateKey)
NewKeyFromSeed(seed) ==
    IF seed.len # KeySeedSize
    THEN [panic |-> PanicSeedKey, pk |-> ZeroPublicKey, sk |-> ZeroPrivateKey,
          work |-> NoWork]
    ELSE LET kp == CpapkeNewKeyFromSeed(seed.parts[1])
             z == seed.parts[2]
             ppk == CpapkePack(kp.pk)
             hpk == Hash256(ppk)
         IN [panic |-> "", pk |-> PublicKey(kp.pk, hpk),
             sk |-> PrivateKey(kp.sk, kp.pk, hpk, z), work |-> Work(1, 1, 0)]

\* func GenerateKeyPair(rand io.Reader) (*PublicKey, *PrivateKey, error);
\* rnd is what io.ReadFull(rand, seed) did
GenerateKeyPair(rnd) ==
    IF rnd.fail
    THEN [panic |-> "", err |-> ErrRand, pk |-> ZeroPublicKey,
          sk |-> ZeroPrivateKey, work |-> Work(0, 0, 1)]
    ELSE LET r == NewKeyFromSeed(Buf(KeySeedSize, rnd.parts))
         IN [panic |-> r.panic, err |-> "", pk |-> r.pk, sk |-> r.sk,
             work |-> Work(r.work.hashes, r.work.pkeCalls, 1)]

\* func (pk *PublicKey) EncapsulateTo(ct, ss []byte, seed []byte);
\* rnd is what cryptoRand.Read does when it is called
EncapsulateTo(pk, ct, ss, seed, rnd) ==
    LET drew == IF seed.isNil THEN 1 ELSE 0
        stop(msg) == [panic |-> msg, ct |-> ct, ss |-> ss,
                      work |-> Work(0, 0, drew)]
    IN IF seed.isNil /\ rnd.fail THEN stop(ErrRand)
       ELSE IF ~seed.isNil /\ seed.len # EncapsulationSeedSize
       THEN stop(PanicSeedEnc)
       ELSE IF ct.len # CiphertextSize THEN stop(PanicCt)
       ELSE IF ss.len # SharedKeySize THEN stop(PanicSs)
       ELSE LET sd == IF seed.isNil THEN rnd.parts[1] ELSE seed.parts[1]
                m == IF nist THEN sd ELSE Hash256(sd)
                K1 == Hash512Lo(Cat(m, pk.hpk))
                r == Hash512Hi(Cat(m, pk.hpk))
                c == CpapkeEncrypt(pk.pk, m, r)
                key == IF nist THEN K1
                       ELSE Shake256(Cat(K1, Hash256(Flat(c))))
            IN [panic |-> "", ct |-> Buf(ct.len, c), ss |-> Buf(ss.len, <<key>>),
                work |-> Work(IF nist THEN 1 ELSE 4, 1, drew)]

\* subtle.ConstantTimeCompare on two slices of equal length
ConstantTimeCompare(x, y) == IF x = y THEN 1 ELSE 0
\* subtle.ConstantTimeCopy(v, x, y): x becomes y when v = 1
ConstantTimeCopy(v, x, y) == IF v = 1 THEN y ELSE x

\* DecapsulateTo with the polarity of the constant-time selection inverted
DecapsulateToInverted(sk, ss, ct) ==
    IF ct.len # CiphertextSize
    THEN [panic |-> PanicCt, ss |-> ss, work |-> NoWork]
    ELSE IF ss.len # SharedKeySize
    THEN [panic |-> PanicSs, ss |-> ss, work |-> NoWork]
    ELSE LET m2 == CpapkeDecrypt(sk.sk, ct.parts)
             K2 == Hash512Lo(Cat(m2, sk.hpk))
             r2 == Hash512Hi(Cat(m2, sk.hpk))
             ct2 == CpapkeEncrypt(sk.pk, m2, r2)
             same == ConstantTimeCompare(ct.parts, ct2)
             key == IF nist
                    THEN ConstantTimeCopy(1 - same,
                             Shake256(Cat(sk.z, Flat(ct.parts))), K2)
                    ELSE Shake256(Cat(ConstantTimeCopy(same, K2, sk.z),
                                      Hash256(Flat(ct.parts))))
         IN [panic |-> "", ss |-> Buf(ss.len, <<key>>),
             work |-> Work(IF nist THEN 2 ELSE 3, 2, 0)]

\* DecapsulateTo deriving the rejection value from the re-encryption c'
\* instead of the ciphertext it was given
DecapsulateToRejectReencrypted(sk, ss, ct) ==
    IF ct.len # CiphertextSize
    THEN [panic |-> PanicCt, ss |-> ss, work |-> NoWork]
    ELSE IF ss.len # SharedKeySize
    THEN [panic |-> PanicSs, ss |-> ss, work |-> NoWork]
    ELSE LET m2 == CpapkeDecrypt(sk.sk, ct.parts)
             K2 == Hash512Lo(Cat(m2, sk.hpk))
             r2 == Hash512Hi(Cat(m2, sk.hpk))
             ct2 == CpapkeEncrypt(sk.pk, m2, r2)
             same == ConstantTimeCompare(ct.parts, ct2)
             key == IF nist
                    THEN ConstantTimeCopy(same,
                             Shake256(Cat(sk.z, Flat(ct2))), K2)
                    ELSE Shake256(Cat(ConstantTimeCopy(1 - same, K2, sk.z),
                                      Hash256(Flat(ct2))))
         IN [panic |-> "", ss |-> Buf(ss.len, <<key>>),
             work |-> Work(IF nist THEN 2 ELSE 3, 2, 0)]

\* DecapsulateTo without the rejection: the derived value is always released
DecapsulateToNoReject(sk, ss, ct) ==
    IF ct.len # CiphertextSize
    THEN [panic |-> PanicCt, ss |-> ss, work |-> NoWork]
    ELSE IF ss.len # SharedKeySize
    THEN [panic |-> PanicSs, ss |-> ss, work |-> NoWork]
    ELSE LET m2 == CpapkeDecrypt(sk.sk, ct.parts)
             K2 == Hash512Lo(Cat(m2, sk.hpk))
             key == IF nist THEN K2
                    ELSE Shake256(Cat(K2, Hash256(Flat(ct.parts))))
         IN [panic |-> "", ss |-> Buf(ss.len, <<key>>),
             work |-> Work(IF nist THEN 2 ELSE 3, 2, 0)]

\* func (sk *PrivateKey) DecapsulateTo(ss, ct []byte)
DecapsulateTo(sk, ss, ct) ==
    IF ct.len # CiphertextSize
    THEN [panic |-> PanicCt, ss |-> ss, work |-> NoWork]
    ELSE IF ss.len # SharedKeySize
    THEN [panic |-> PanicSs, ss |-> ss, work |-> NoWork]
    ELSE LET m2 == CpapkeDecrypt(sk.sk, ct.parts)
             K2 == Hash512Lo(Cat(m2, sk.hpk))
             r2 == Hash512Hi(Cat(m2, sk.hpk))
             ct2 == CpapkeEncrypt(sk.pk, m2, r2)
             same == ConstantTimeCompare(ct.parts, ct2)
             key == IF nist
                    THEN ConstantTimeCopy(same,
                             Shake256(Cat(sk.z, Flat(ct.parts))), K2)
                    ELSE Shake256(Cat(ConstantTimeCopy(1 - same, K2, sk.z),
                                      Hash256(Flat(ct.parts))))
         IN [panic |-> "", ss |-> Buf(ss.len, <<key>>),
             work |-> Work(IF nist THEN 2 ELSE 3, 2, 0)]

\* func (sk *PrivateKey) Pack(buf []byte)
PrivateKeyPack(sk, buf) ==
    IF buf.len # PrivateKeySize
    THEN [panic |-> PanicPrivBuf, buf |-> buf, work |-> NoWork]
    ELSE [panic |-> "",
          buf |-> Buf(buf.len, <<CpapkePack(sk.sk), CpapkePack(sk.pk),
                                 sk.hpk, sk.z>>),
          work |-> NoWork]

\* PrivateKey.Unpack validating against the hash of the re-packed public key
\* instead of the hash of the embedded bytes
PrivateKeyUnpackHashRepacked(sk, buf) ==
    IF buf.len # PrivateKeySize
    THEN [panic |-> IF nist THEN "" ELSE PanicPrivBuf,
          err |-> IF nist THEN ErrPrivKeySize ELSE "",
          sk |-> sk, work |-> NoWork]
    ELSE LET key == PrivateKey(CpapkeUnpack(buf.parts[1]),
                               CpapkeUnpack(buf.parts[2]),
                               buf.parts[3], buf.parts[4])
             hpk == Hash256(CpapkePack(key.pk))
         IN [panic |-> "",
             err |-> IF nist /\ hpk # key.hpk THEN ErrPrivKey ELSE "",
             sk |-> key, work |-> Work(IF nist THEN 1 ELSE 0, 0, 0)]

\* PrivateKey.Unpack copying z from the offset of hpk
PrivateKeyUnpackWrongOffset(sk, buf) ==
    IF buf.len # PrivateKeySize
    THEN [panic |-> IF nist THEN "" ELSE PanicPrivBuf,
          err |-> IF nist THEN ErrPrivKeySize ELSE "",
          sk |-> sk, work |-> NoWork]
    ELSE LET hpk == Hash256(buf.parts[2])
             key == PrivateKey(CpapkeUnpack(buf.parts[1]),
                               CpapkeUnpack(buf.parts[2]),
                               buf.parts[3], buf.parts[3])
         IN [panic |-> "",
             err |-> IF nist /\ hpk # key.hpk THEN ErrPrivKey ELSE "",
             sk |-> key, work |-> Work(IF nist THEN 1 ELSE 0, 0, 0)]

\* func (sk *PrivateKey) Unpack(buf []byte) [error]; sk in the result is the
\* receiver after the call
PrivateKeyUnpack(sk, buf) ==
    IF buf.len # PrivateKeySize
    THEN [panic |-> IF nist THEN "" ELSE PanicPrivBuf,
          err |-> IF nist THEN ErrPrivKeySize ELSE "",
          sk |-> sk, work |-> NoWork]
    ELSE LET hpk == Hash256(buf.parts[2])
             key == PrivateKey(CpapkeUnpack(buf.parts[1]),
                               CpapkeUnpack(buf.parts[2]),
                               buf.parts[3], buf.parts[4])
         IN [panic |-> "",
             err |-> IF nist /\ hpk # key.hpk THEN ErrPrivKey ELSE "",
             sk |-> key, work |-> Work(IF nist THEN 1 ELSE 0, 0, 0)]

\* func (pk *PublicKey) Pack(buf []byte)
PublicKeyPack(pk, buf) ==
    IF buf.len # PublicKeySize
    THEN [panic |-> PanicPubBuf, buf |-> buf, work |-> NoWork]
    ELSE [panic |-> "", buf |-> Buf(buf.len, <<CpapkePack(pk.pk)>>),
          work |-> NoWork]

\* func (pk *PublicKey) Unpack(buf []byte) [error]; pk in the result is the
\* receiver after the call
PublicKeyUnpack(pk, buf) ==
    IF buf.len # PublicKeySize
    THEN [panic |-> IF nist THEN "" ELSE PanicPubBuf,
          err |-> IF nist THEN ErrPubKeySize ELSE "",
          pk |-> pk, work |-> NoWork]
    ELSE LET u == CpapkeUnpackMLKEM(buf.parts[1])
         IN IF nist /\ u.err # ""
            THEN [panic |-> "", err |-> u.err,
                  pk |-> PublicKey(u.pk, pk.hpk), work |-> NoWork]
            ELSE [panic |-> "", err |-> "",
                  pk |-> PublicKey(CpapkeUnpack(buf.parts[1]),
                                   Hash256(buf.parts[1])),
                  work |-> Work(1, 0, 0)]

\* func (sk *PrivateKey) Equal(other kem.PrivateKey) bool; sameType is the
\* outcome of the type assertion other.(*PrivateKey)
PrivateKeyEqual(sk, oth, sameType) ==
    IF ~sameType THEN FALSE
    ELSE IF sk.pk = <<>> /\ oth.pk = <<>> THEN TRUE
    ELSE IF sk.pk = <<>> \/ oth.pk = <<>> THEN FALSE
    ELSE IF sk.hpk # oth.hpk \/ ConstantTimeCompare(sk.z, oth.z) # 1 THEN FALSE
    ELSE CpapkeEqual(sk.sk, oth.sk)

\* func (pk *PublicKey) Equal(other kem.PublicKey) bool
PublicKeyEqual(pk, oth, sameType) ==
    IF ~sameType THEN FALSE
    ELSE IF pk.pk = <<>> /\ oth.pk = <<>> THEN TRUE
    ELSE IF pk.pk = <<>> \/ oth.pk = <<>> THEN FALSE
    ELSE pk.hpk = oth.hpk

\* func (sk *PrivateKey) Public() kem.PublicKey
Public(sk) == PublicKey(sk.pk, sk.hpk)

(***************************************************************************)
(* The scheme facade (pkg.templ.go, "Boilerplate down below").             *)
(***************************************************************************)
\* a kem.PublicKey / kem.PrivateKey interface value: isThis tells whether its
\* dynamic type is this package's key type
KeyArg(isThis, key) == [isThis |-> isThis, key |-> key]

\* func (*scheme) DeriveKeyPair(seed []byte) (kem.PublicKey, kem.PrivateKey)
DeriveKeyPair(seed) ==
    IF seed.len # KeySeedSize
    THEN [panic |-> ErrSeedSize, pk |-> ZeroPublicKey, sk |-> ZeroPrivateKey,
          work |-> NoWork]
    ELSE NewKeyFromSeed(seed)

\* Encapsulate returning its named results ct and ss, already allocated,
\* together with the type-mismatch error
EncapsulateBareReturn(pk, rnd) ==
    IF ~pk.isThis
    THEN [panic |-> "", err |-> ErrTypeMismatch, ct |-> Zeroed(CiphertextSize),
          ss |-> Zeroed(SharedKeySize), work |-> NoWork]
    ELSE LET r == EncapsulateTo(pk.key, Zeroed(CiphertextSize),
                                Zeroed(SharedKeySize), NilBuf, rnd)
         IN [panic |-> r.panic, err |-> "", ct |-> r.ct, ss |-> r.ss,
             work |-> r.work]

\* func (*scheme) Encapsulate(pk kem.PublicKey) (ct, ss []byte, err error)
Encapsulate(pk, rnd) ==
    IF ~pk.isThis
    THEN [panic |-> "", err |-> ErrTypeMismatch, ct |-> NilBuf, ss |-> NilBuf,
          work |-> NoWork]
    ELSE LET r == EncapsulateTo(pk.key, Zeroed(CiphertextSize),
                                Zeroed(SharedKeySize), NilBuf, rnd)
         IN [panic |-> r.panic, err |-> "", ct |-> r.ct, ss |-> r.ss,
             work |-> r.work]

\* func (*scheme) EncapsulateDeterministically(pk kem.PublicKey, seed []byte)
EncapsulateDeterministically(pk, seed) ==
    IF seed.len # EncapsulationSeedSize
    THEN [panic |-> "", err |-> ErrSeedSize, ct |-> NilBuf, ss |-> NilBuf,
          work |-> NoWork]
    ELSE IF ~pk.isThis
    THEN [panic |-> "", err |-> ErrTypeMismatch, ct |-> NilBuf, ss |-> NilBuf,
          work |-> NoWork]
    ELSE LET r == EncapsulateTo(pk.key, Zeroed(CiphertextSize),
                                Zeroed(SharedKeySize), seed, NotRead)
         IN [panic |-> r.panic, err |-> "", ct |-> r.ct, ss |-> r.ss,
             work |-> r.work]

\* func (*scheme) Decapsulate(sk kem.PrivateKey, ct []byte) ([]byte, error)
Decapsulate(sk, ct) ==
    IF ct.len # CiphertextSize
    THEN [panic |-> "", err |-> ErrCiphertextSize, ss |-> NilBuf,
          work |-> NoWork]
    ELSE IF ~sk.isThis
    THEN [panic |-> "", err |-> ErrTypeMismatch, ss |-> NilBuf, work |-> NoWork]
    ELSE LET r == DecapsulateTo(sk.key, Zeroed(SharedKeySize), ct)
         IN [panic |-> r.panic, err |-> "", ss |-> r.ss, work |-> r.work]

\* func (*scheme) UnmarshalBinaryPublicKey(buf []byte) (kem.PublicKey, error);
\* got tells whether a key (not nil) is returned
UnmarshalBinaryPublicKey(buf) ==
    IF ~nist /\ buf.len # PublicKeySize
    THEN [panic |-> "", err |-> ErrPubKeySize, got |-> FALSE,
          pk |-> ZeroPublicKey, work |-> NoWork]
    ELSE LET r == PublicKeyUnpack(ZeroPublicKey, buf)
         IN [panic |-> r.panic, err |-> r.err, got |-> r.err = "",
             pk |-> IF r.err = "" THEN r.pk ELSE ZeroPublicKey,
             work |-> r.work]

\* func (*scheme) UnmarshalBinaryPrivateKey(buf []byte) (kem.PrivateKey, error)
UnmarshalBinaryPrivateKey(buf) ==
    IF buf.len # PrivateKeySize
    THEN [panic |-> "", err |-> ErrPrivKeySize, got |-> FALSE,
          sk |-> ZeroPrivateKey, work |-> NoWork]
    ELSE LET r == PrivateKeyUnpack(ZeroPrivateKey, buf)
         IN [panic |-> r.panic, err |-> r.err, got |-> r.err = "",
             sk |-> IF r.err = "" THEN r.sk ELSE ZeroPrivateKey,
             work |-> r.work]

(***************************************************************************)
(* Inputs the callers, the network and the randomness source can supply.   *)
(***************************************************************************)
\* a required size, one byte less and one byte more
Around(n) == {n - 1, n, n + 1}

\* buffers of the required size with each of the contents, and one buffer a
\* byte too short and one a byte too long
Sized(n, contents) ==
    {Buf(n, c) : c \in contents}
    \cup (IF contents = {} THEN {}
          ELSE {Buf(k, CHOOSE c \in contents : TRUE) : k \in {n - 1, n + 1}})

KeySeedBufs == Sized(KeySeedSize, KeySeedParts)
EncSeedBufs == Sized(EncapsulationSeedSize, {<<e>> : e \in RawSet})

\* what reading from the randomness source can do: fail, or fill the buffer
RandKeySeed == {RandFail} \cup {[fail |-> FALSE, parts |-> sd] : sd \in KeySeedParts}
RandEncSeed == {RandFail} \cup {[fail |-> FALSE, parts |-> <<e>>] : e \in RawSet}

\* the PKE keys of this variant and their encodings
PkeKeys == {CpapkeNewKeyFromSeed(sd[1]) : sd \in KeySeedParts}
PubEncodings == UNION {{CpapkePack(k.pk), CpapkeNonCanon(k.pk)} : k \in PkeKeys}
PubKeyBufs == Sized(PublicKeySize, {<<b>> : b \in PubEncodings})
\* a digest with its last byte flipped
Flip(h) == h \o <<"^1">>
\* the encodings of a PKE public key and the digests that can go with them:
\* the hash of either encoding, or that hash with a flipped byte
EncodingsOf(pk) == {CpapkePack(pk), CpapkeNonCanon(pk)}
DigestsOf(pk) ==
    UNION {{Hash256(b), Flip(Hash256(b))} : b \in EncodingsOf(pk)}
\* packed private keys, each with the z of its PKE private key: the PKE key
\* pair of a seed with either encoding of its public key and any of the
\* digests, or the PKE private key of one seed with the public key of another
PrivKeyBufs ==
    Sized(PrivateKeySize,
          UNION {{<<CpapkePack(CpapkeNewKeyFromSeed(sd[1]).sk), b, h, sd[2]>> :
                     b \in EncodingsOf(CpapkeNewKeyFromSeed(sd[1]).pk),
                     h \in DigestsOf(CpapkeNewKeyFromSeed(sd[1]).pk)}
                 \cup {<<CpapkePack(CpapkeNewKeyFromSeed(sd[1]).sk),
                          CpapkePack(j.pk), Hash256(CpapkePack(j.pk)), sd[2]>> :
                          j \in PkeKeys}
                 : sd \in KeySeedParts})

\* the messages an encapsulation can encrypt
Messages == {IF nist THEN e ELSE Hash256(e) : e \in RawSet}

\* ciphertexts of the right length that differ from c: noise added, the
\* message replaced (with stale or with matching coins), the coins replaced,
\* made for another key
Tampered(c, hpk) ==
    ({<<c[1], c[2], c[3], <<"1">>>>, <<c[1], c[2], <<"coins">>, c[4]>>}
     \cup {<<c[1], m, c[3], c[4]>> : m \in Messages}
     \cup {<<c[1], m, Hash512Hi(Cat(m, hpk)), c[4]>> : m \in Messages}
     \cup {<<k.pk, c[2], c[3], c[4]>> : k \in PkeKeys}) \ {c}

\* the ways to supply the encapsulation seed: given by the caller, or nil and
\* drawn from the randomness source
SeedChoices(seeds) ==
    {[seed |-> sd, rnd |-> NotRead] : sd \in seeds}
    \cup {[seed |-> NilBuf, rnd |-> r] : r \in RandEncSeed}
\* the arguments of EncapsulateTo: all of the required size with every seed,
\* or one of them a byte too short or too long
EncapsulateArgs ==
    {[ctLen |-> CiphertextSize, ssLen |-> SharedKeySize, seed |-> c.seed,
      rnd |-> c.rnd] : c \in SeedChoices(EncSeedBufs)}
    \cup {[ctLen |-> n, ssLen |-> SharedKeySize, seed |-> c.seed, rnd |-> c.rnd] :
             n \in {CiphertextSize - 1, CiphertextSize + 1},
             c \in SeedChoices({Buf(EncapsulationSeedSize, <<Raw(1)>>)})}
    \cup {[ctLen |-> CiphertextSize, ssLen |-> n, seed |-> c.seed, rnd |-> c.rnd] :
             n \in {SharedKeySize - 1, SharedKeySize + 1},
             c \in SeedChoices({Buf(EncapsulationSeedSize, <<Raw(1)>>)})}

\* the ciphertext buffers that can arrive while wire is in flight
CtBufs ==
    IF wire.set
    THEN Sized(CiphertextSize,
               {wire.ct.parts} \cup Tampered(wire.ct.parts, wire.pk.hpk))
    ELSE {}

(***************************************************************************)
(* State.                                                                  *)
(***************************************************************************)
\* the record of one call: its inputs, its outcome and its output buffers
Call(op, panic, err, work, seed, ct, ss, buf, isThis, got, randFailed) ==
    [op |-> op, panic |-> panic, err |-> err, work |-> work, seed |-> seed,
     ct |-> ct, ss |-> ss, buf |-> buf, isThis |-> isThis, got |-> got,
     randFailed |-> randFailed]
NoCall ==
    Call("", "", "", NoWork, NilBuf, NilBuf, NilBuf, NilBuf, TRUE, FALSE, FALSE)

\* the last encapsulation to the current public key that completed: the key
\* it used and what it wrote; dropped when the public key is replaced
Wire(pk, ct, ss) == [set |-> TRUE, pk |-> pk, ct |-> ct, ss |-> ss]
NoWire == [set |-> FALSE, pk |-> ZeroPublicKey, ct |-> NilBuf, ss |-> NilBuf]

\* what the call before the last one wrote, when both decapsulated the same
\* ciphertext with the same key
Prev(ss) == [set |-> TRUE, ss |-> ss]
NoPrev == [set |-> FALSE, ss |-> NilBuf]

\* no call is pending: the caller has taken the result of its last call
Idle == last = NoCall
\* the caller still holds the result of a decapsulation that completed
Decapsulated ==
    /\ last.op \in {"DecapsulateTo", "Decapsulate"}
    /\ last.isThis /\ last.panic = "" /\ last.err = ""
\* the ciphertext in flight, in a buffer of the right or of a wrong size
WireBufs == {b \in CtBufs : b.parts = wire.ct.parts}
\* the arguments of DecapsulateTo: any ciphertext that can arrive with an
\* output buffer of the required size, the ciphertext in flight with an
\* output buffer a byte too short or too long, or once more the arguments of
\* the decapsulation that has just completed
DecapsulateArgs ==
    IF Idle
    THEN {[ssLen |-> SharedKeySize, ct |-> ct] : ct \in CtBufs}
         \cup {[ssLen |-> n, ct |-> ct] :
                  n \in {SharedKeySize - 1, SharedKeySize + 1},
                  ct \in {b \in WireBufs : b.len = CiphertextSize}}
    ELSE {[ssLen |-> last.ss.len, ct |-> last.ct]}
\* the arguments of the facade's Decapsulate
FacadeDecapsulateArgs ==
    IF Idle
    THEN {[isThis |-> TRUE, ct |-> ct] : ct \in CtBufs}
         \cup {[isThis |-> FALSE, ct |-> ct] : ct \in WireBufs}
    ELSE {[isThis |-> TRUE, ct |-> last.ct]}
\* prev after a decapsulation
Repeat == IF Idle THEN NoPrev ELSE Prev(last.ss)

InitKem ==
    /\ nist \in BOOLEAN
    /\ pub = ZeroPublicKey
    /\ priv = ZeroPrivateKey
    /\ wire = NoWire
    /\ last = NoCall
    /\ prev = NoPrev

(***************************************************************************)
(* Calls on the KEM core.                                                  *)
(***************************************************************************)
DoNewKeyFromSeed ==
    /\ Idle
    /\ \E seed \in KeySeedBufs :
        LET r == NewKeyFromSeed(seed)
        IN /\ pub' = IF r.panic = "" THEN r.pk ELSE pub
           /\ priv' = IF r.panic = "" THEN r.sk ELSE priv
           /\ last' = Call("NewKeyFromSeed", r.panic, "", r.work, seed,
                           NilBuf, NilBuf, NilBuf, TRUE, r.panic = "", FALSE)
           /\ prev' = NoPrev
           /\ wire' = IF pub' = pub THEN wire ELSE NoWire
           /\ UNCHANGED nist

DoGenerateKeyPair ==
    /\ Idle
    /\ \E rnd \in RandKeySeed :
        LET r == GenerateKeyPair(rnd)
            okay == r.panic = "" /\ r.err = ""
        IN /\ pub' = IF okay THEN r.pk ELSE pub
           /\ priv' = IF okay THEN r.sk ELSE priv
           /\ last' = Call("GenerateKeyPair", r.panic, r.err, r.work, NilBuf,
                           NilBuf, NilBuf, NilBuf, TRUE, okay,
                           r.work.randDraws > 0 /\ rnd.fail)
           /\ prev' = NoPrev
           /\ wire' = IF pub' = pub THEN wire ELSE NoWire
           /\ UNCHANGED nist

DoEncapsulateTo ==
    /\ Idle
    /\ pub.pk # <<>>
    /\ \E a \in EncapsulateArgs :
        LET seed == a.seed
            rnd == a.rnd
            r == EncapsulateTo(pub, Zeroed(a.ctLen), Zeroed(a.ssLen), seed, rnd)
        IN /\ wire' = IF r.panic = "" THEN Wire(pub, r.ct, r.ss) ELSE wire
           /\ last' = Call("EncapsulateTo", r.panic, "", r.work, seed,
                           r.ct, r.ss, NilBuf, TRUE, FALSE,
                           r.work.randDraws > 0 /\ rnd.fail)
           /\ prev' = NoPrev
           /\ UNCHANGED <<nist, pub, priv>>

DoDecapsulateTo ==
    /\ Idle \/ (Decapsulated /\ last.op = "DecapsulateTo")
    /\ priv.pk # <<>>
    /\ \E a \in DecapsulateArgs :
        LET ct == a.ct
            r == DecapsulateTo(priv, Zeroed(a.ssLen), ct)
        IN /\ last' = Call("DecapsulateTo", r.panic, "", r.work, NilBuf,
                           ct, r.ss, NilBuf, TRUE, FALSE, FALSE)
           /\ prev' = Repeat
           /\ UNCHANGED <<nist, pub, priv, wire>>

DoPrivateKeyPack ==
    /\ Idle
    /\ priv.pk # <<>>
    /\ \E n \in Around(PrivateKeySize) :
        LET r == PrivateKeyPack(priv, Zeroed(n))
        IN /\ last' = Call("PrivateKey.Pack", r.panic, "", r.work, NilBuf,
                           NilBuf, NilBuf, r.buf, TRUE, FALSE, FALSE)
           /\ prev' = NoPrev
           /\ UNCHANGED <<nist, pub, priv, wire>>

DoPrivateKeyUnpack ==
    /\ Idle
    /\ \E buf \in PrivKeyBufs :
        LET r == PrivateKeyUnpack(priv, buf)
        IN /\ priv' = r.sk
           /\ last' = Call("PrivateKey.Unpack", r.panic, r.err, r.work, NilBuf,
                           NilBuf, NilBuf, buf, TRUE, r.panic = "" /\ r.err = "", FALSE)
           /\ prev' = NoPrev
           /\ UNCHANGED <<nist, pub, wire>>

DoPublicKeyPack ==
    /\ Idle
    /\ pub.pk # <<>>
    /\ \E n \in Around(PublicKeySize) :
        LET r == PublicKeyPack(pub, Zeroed(n))
        IN /\ last' = Call("PublicKey.Pack", r.panic, "", r.work, NilBuf,
                           NilBuf, NilBuf, r.buf, TRUE, FALSE, FALSE)
           /\ prev' = NoPrev
           /\ UNCHANGED <<nist, pub, priv, wire>>

DoPublicKeyUnpack ==
    /\ Idle
    /\ \E buf \in PubKeyBufs :
        LET r == PublicKeyUnpack(pub, buf)
        IN /\ pub' = r.pk
           /\ last' = Call("PublicKey.Unpack", r.panic, r.err, r.work, NilBuf,
                           NilBuf, NilBuf, buf, TRUE, r.panic = "" /\ r.err = "", FALSE)
           /\ prev' = NoPrev
           /\ wire' = IF pub' = pub THEN wire ELSE NoWire
           /\ UNCHANGED <<nist, priv>>

DoPublic ==
    /\ Idle
    /\ priv.pk # <<>>
    /\ pub' = Public(priv)
    /\ last' = Call("Public", "", "", NoWork, NilBuf, NilBuf, NilBuf, NilBuf,
                    TRUE, TRUE, FALSE)
    /\ prev' = NoPrev
    /\ wire' = IF pub' = pub THEN wire ELSE NoWire
    /\ UNCHANGED <<nist, priv>>

(***************************************************************************)
(* Calls on the scheme facade.                                             *)
(***************************************************************************)
DoDeriveKeyPair ==
    /\ Idle
    /\ \E seed \in KeySeedBufs :
        LET r == DeriveKeyPair(seed)
        IN /\ pub' = IF r.panic = "" THEN r.pk ELSE pub
           /\ priv' = IF r.panic = "" THEN r.sk ELSE priv
           /\ last' = Call("DeriveKeyPair", r.panic, "", r.work, seed,
                           NilBuf, NilBuf, NilBuf, TRUE, r.panic = "", FALSE)
           /\ prev' = NoPrev
           /\ wire' = IF pub' = pub THEN wire ELSE NoWire
           /\ UNCHANGED nist

DoEncapsulate ==
    /\ Idle
    /\ pub.pk # <<>>
    /\ \E isThis \in BOOLEAN, rnd \in RandEncSeed :
        LET r == Encapsulate(KeyArg(isThis, pub), rnd)
            okay == r.panic = "" /\ r.err = ""
        IN /\ wire' = IF okay THEN Wire(pub, r.ct, r.ss) ELSE wire
           /\ last' = Call("Encapsulate", r.panic, r.err, r.work, NilBuf,
                           r.ct, r.ss, NilBuf, isThis, FALSE,
                           r.work.randDraws > 0 /\ rnd.fail)
           /\ prev' = NoPrev
           /\ UNCHANGED <<nist, pub, priv>>

DoEncapsulateDeterministically ==
    /\ Idle
    /\ pub.pk # <<>>
    /\ \E isThis \in BOOLEAN, seed \in EncSeedBufs :
        LET r == EncapsulateDeterministically(KeyArg(isThis, pub), seed)
            okay == r.panic = "" /\ r.err = ""
        IN /\ wire' = IF okay THEN Wire(pub, r.ct, r.ss) ELSE wire
           /\ last' = Call("EncapsulateDeterministically", r.panic, r.err,
                           r.work, seed, r.ct, r.ss, NilBuf, isThis, FALSE, FALSE)
           /\ prev' = NoPrev
           /\ UNCHANGED <<nist, pub, priv>>

DoDecapsulate ==
    /\ Idle \/ (Decapsulated /\ last.op = "Decapsulate")
    /\ priv.pk # <<>>
    /\ \E a \in FacadeDecapsulateArgs :
        LET ct == a.ct
            isThis == a.isThis
            r == Decapsulate(KeyArg(isThis, priv), ct)
        IN /\ last' = Call("Decapsulate", r.panic, r.err, r.work, NilBuf,
                           ct, r.ss, NilBuf, isThis, FALSE, FALSE)
           /\ prev' = Repeat
           /\ UNCHANGED <<nist, pub, priv, wire>>

DoUnmarshalBinaryPublicKey ==
    /\ Idle
    /\ \E buf \in PubKeyBufs :
        LET r == UnmarshalBinaryPublicKey(buf)
        IN /\ pub' = IF r.got THEN r.pk ELSE pub
           /\ last' = Call("UnmarshalBinaryPublicKey", r.panic, r.err, r.work,
                           NilBuf, NilBuf, NilBuf, buf, TRUE, r.got, FALSE)
           /\ prev' = NoPrev
           /\ wire' = IF pub' = pub THEN wire ELSE NoWire
           /\ UNCHANGED <<nist, priv>>

DoUnmarshalBinaryPrivateKey ==
    /\ Idle
    /\ \E buf \in PrivKeyBufs :
        LET r == UnmarshalBinaryPrivateKey(buf)
        IN /\ priv' = IF r.got THEN r.sk ELSE priv
           /\ last' = Call("UnmarshalBinaryPrivateKey", r.panic, r.err, r.work,
                           NilBuf, NilBuf, NilBuf, buf, TRUE, r.got, FALSE)
           /\ prev' = NoPrev
           /\ UNCHANGED <<nist, pub, wire>>

\* the caller takes the result of its last call
DoReturn ==
    /\ ~Idle
    /\ last' = NoCall
    /\ prev' = NoPrev
    /\ UNCHANGED <<nist, pub, priv, wire>>

NextKem ==
    \/ DoReturn
    \/ DoNewKeyFromSeed
    \/ DoGenerateKeyPair
    \/ DoEncapsulateTo
    \/ DoDecapsulateTo
    \/ DoPrivateKeyPack
    \/ DoPrivateKeyUnpack
    \/ DoPublicKeyPack
    \/ DoPublicKeyUnpack
    \/ DoPublic
    \/ DoDeriveKeyPair
    \/ DoEncapsulate
    \/ DoEncapsulateDeterministically
    \/ DoDecapsulate
    \/ DoUnmarshalBinaryPublicKey
    \/ DoUnmarshalBinaryPrivateKey

(***************************************************************************)
(* Secret sharing (secretsharing/ss.go) over the scalar field of a group   *)
(* of prime order.                                                         *)
(***************************************************************************)
\* the order of the group: scalars are the integers modulo Order
Order == 5
Scalars == 0..(Order - 1)
\* a nil group.Scalar
NoScalar == Order

\* group.Scalar Add, Sub, Mul, Inv
ScAdd(a, b) == (a + b) % Order
ScSub(a, b) == (a - b + Order) % Order
ScMul(a, b) == (a * b) % Order
ScInv(a) == CHOOSE b \in Scalars : ScMul(a, b) = 1

RECURSIVE Horner(_, _, _)
\* the value at x of the polynomial whose first i coefficients are dropped
Horner(c, x, i) ==
    IF i > Len(c) THEN 0 ELSE ScAdd(c[i], ScMul(x, Horner(c, x, i + 1)))
\* polynomial.Polynomial.Evaluate
PolyEvaluate(c, x) == Horner(c, x, 1)

RECURSIVE BaseRatio(_, _, _, _)
\* the Lagrange base polynomial of x[i] at v, over the points from index j on
BaseRatio(i, x, v, j) ==
    IF j > Len(x) THEN 1
    ELSE IF j = i THEN BaseRatio(i, x, v, j + 1)
    ELSE ScMul(ScMul(ScSub(v, x[j]), ScInv(ScSub(x[i], x[j]))),
               BaseRatio(i, x, v, j + 1))

RECURSIVE LagrangeSum(_, _, _, _)
LagrangeSum(x, y, v, i) ==
    IF i > Len(x) THEN 0
    ELSE ScAdd(ScMul(y[i], BaseRatio(i, x, v, 1)), LagrangeSum(x, y, v, i + 1))
\* polynomial.LagrangePolynomial.Evaluate
LagrangeEvaluate(x, y, v) == LagrangeSum(x, y, v, 1)
\* polynomial.NewLagrangePolynomial panics unless the points are all different
AllDifferent(x) == \A i, j \in 1..Len(x) : i # j => x[i] # x[j]

\* type Share struct { ID, Value }
Share(id, value) == [id |-> id, value |-> value]

\* func New(rnd io.Reader, t uint, secret group.Scalar) SecretSharing;
\* rnd is the t scalars g.RandomScalar(rnd) returns
New(rnd, t, secret) == [set |-> TRUE, t |-> t, poly |-> <<secret>> \o rnd]
NoSharing == [set |-> FALSE, t |-> 0, poly |-> <<>>]

\* func (ss SecretSharing) ShareWithID(id group.Scalar) Share
ShareWithID(ss, id) ==
    IF id = 0
    THEN [panic |-> TRUE, share |-> Share(0, 0)]
    ELSE [panic |-> FALSE, share |-> Share(id, PolyEvaluate(ss.poly, id))]

\* func (ss SecretSharing) Share(n uint) []Share
ShareN(ss, n) == [i \in 1..n |-> ShareWithID(ss, i % Order).share]

\* Recover interpolating through one share too few
RecoverOneShort(t, shares) ==
    IF Len(shares) <= t
    THEN [panic |-> FALSE, err |-> TRUE, secret |-> NoScalar]
    ELSE LET x == [i \in 1..t |-> shares[i].id]
             px == [i \in 1..t |-> shares[i].value]
         IN IF ~AllDifferent(x)
            THEN [panic |-> TRUE, err |-> FALSE, secret |-> NoScalar]
            ELSE [panic |-> FALSE, err |-> FALSE,
                  secret |-> LagrangeEvaluate(x, px, 0)]

\* func Recover(t uint, shares []Share) (secret group.Scalar, err error)
Recover(t, shares) ==
    IF Len(shares) <= t
    THEN [panic |-> FALSE, err |-> TRUE, secret |-> NoScalar]
    ELSE LET x == [i \in 1..(t + 1) |-> shares[i].id]
             px == [i \in 1..(t + 1) |-> shares[i].value]
         IN IF ~AllDifferent(x)
            THEN [panic |-> TRUE, err |-> FALSE, secret |-> NoScalar]
            ELSE [panic |-> FALSE, err |-> FALSE,
                  secret |-> LagrangeEvaluate(x, px, 0)]

\* the record of the last call: what Recover was given and what it returned
Rec(op, t, shares, panic, err, secret) ==
    [op |-> op, t |-> t, shares |-> shares, panic |-> panic, err |-> err,
     secret |-> secret]
NoRec == Rec("", 0, <<>>, FALSE, FALSE, NoScalar)

RECURSIVE Lists(_, _)
\* the lists of at most n shares of S, each share at most once
Lists(S, n) ==
    IF n = 0 THEN {<<>>}
    ELSE {<<>>} \cup UNION {{<<s>> \o l : l \in Lists(S \ {s}, n - 1)} : s \in S}

InitSS == ssh = NoSharing /\ pool = {} /\ rec = NoRec

\* the caller has taken the result of its last secret sharing call
IdleSS == rec = NoRec

DoNew ==
    /\ IdleSS
    /\ ~ssh.set
    /\ \E t \in 0..MaxT, secret \in Scalars :
        \E rnd \in [1..t -> Scalars] :
            /\ ssh' = New(rnd, t, secret)
            /\ pool' = {}
            /\ rec' = Rec("New", t, <<>>, FALSE, FALSE, NoScalar)

DoShare ==
    /\ IdleSS
    /\ ssh.set
    /\ \E n \in 0..(Order - 1) :
        LET shares == ShareN(ssh, n)
        IN /\ pool' = pool \cup {shares[i] : i \in 1..n}
           /\ rec' = Rec("Share", ssh.t, shares, FALSE, FALSE, NoScalar)
           /\ UNCHANGED ssh

DoShareWithID ==
    /\ IdleSS
    /\ ssh.set
    /\ \E id \in Scalars :
        LET r == ShareWithID(ssh, id)
        IN /\ pool' = IF r.panic THEN pool ELSE pool \cup {r.share}
           /\ rec' = Rec("ShareWithID", ssh.t, <<r.share>>, r.panic, FALSE, NoScalar)
           /\ UNCHANGED ssh

DoRecover ==
    /\ IdleSS
    /\ ssh.set
    /\ \E shares \in Lists(pool, MaxT + 2) \cup {<<s, s>> : s \in pool} :
        LET r == Recover(ssh.t, shares)
        IN /\ rec' = Rec("Recover", ssh.t, shares, r.panic, r.err, r.secret)
           /\ UNCHANGED <<ssh, pool>>

\* the caller takes the result of its last secret sharing call
DoReturnSS ==
    /\ ~IdleSS
    /\ rec' = NoRec
    /\ UNCHANGED <<ssh, pool>>

NextSS ==
    \/ DoReturnSS
    \/ DoNew
    \/ DoShare
    \/ DoShareWithID
    \/ DoRecover

(***************************************************************************)
(* Concurrent use of one key (pkg.templ.go).  The goroutines hold the same *)
(* *PrivateKey and the *PublicKey it gave out; each passes buffers of its  *)
(* own.  A call is taken one statement at a time, and the statements of    *)
(* different goroutines interleave freely.                                 *)
(***************************************************************************)
\* the variables of the body declared at package level, one copy for all
SlotShared(g) == 1
\* where the variables declared in a call's body live: on the stack of the
\* goroutine that makes the call
Slot(g) == g

\* var m2 [32]byte; var kr2 [64]byte; var ct2 [CiphertextSize]byte;
\* var ss2 [SharedKeySize]byte (m and kr in EncapsulateTo)
Locals(m, krLo, krHi, ct2, ss2) ==
    [m |-> m, krLo |-> krLo, krHi |-> krHi, ct2 |-> ct2, ss2 |-> ss2]
NoLocals == Locals(<<>>, <<>>, <<>>, <<>>, <<>>)

\* one call of a goroutine: the method, the statement it is at, and the
\* buffers the caller passed
Frame(op, pc, ct, ss, seed, buf, panic) ==
    [op |-> op, pc |-> pc, ct |-> ct, ss |-> ss, seed |-> seed, buf |-> buf,
     panic |-> panic]
NoFrame == Frame("", "idle", NilBuf, NilBuf, NilBuf, NilBuf, "")

\* the key pairs the goroutines may share: those of the first and of the last
\* key seed
SharedKeys ==
    {[sk |-> NewKeyFromSeed(seed).sk, pk |-> Public(NewKeyFromSeed(seed).sk)] :
        seed \in {b \in KeySeedBufs :
                     /\ b.len = KeySeedSize
                     /\ b.parts[1] \in {Raw(1), Raw(NumSeeds)}}}

\* the encapsulation seeds the goroutines pass: two of the required length
\* and one a byte too long
GoSeedBufs ==
    {Buf(EncapsulationSeedSize, <<Raw(1)>>),
     Buf(EncapsulationSeedSize, <<Raw(NumSeeds)>>),
     Buf(EncapsulationSeedSize + 1, <<Raw(1)>>)}
\* the ciphertexts the goroutines pass: one made for the shared key, the same
\* with its last bit flipped, and one a byte too long
GoCtBufs ==
    LET c == EncapsulateTo(shared.pk, Zeroed(CiphertextSize),
                           Zeroed(SharedKeySize),
                           Buf(EncapsulationSeedSize, <<Raw(1)>>), NotRead).ct.parts
    IN {Buf(CiphertextSize, c),
        Buf(CiphertextSize, <<c[1], c[2], c[3], <<"1">>>>),
        Buf(CiphertextSize + 1, c)}

\* no key is shared and no goroutine runs
InitNoGo ==
    /\ shared = [sk |-> ZeroPrivateKey, pk |-> ZeroPublicKey]
    /\ gor = [g \in 1..NumGoroutines |-> NoFrame]
    /\ stack = [g \in 1..NumGoroutines |-> NoLocals]

\* the variables of the body of g's call
Local(g) == stack[Slot(g)]

\* go sk.DecapsulateTo(ss, ct)
GoDecapsulateTo(g) ==
    /\ gor[g].op = "" /\ gor[g].pc = "idle"
    /\ \E ct \in GoCtBufs :
        gor' = [gor EXCEPT ![g] = Frame("DecapsulateTo", "179", ct,
                                        Zeroed(SharedKeySize), NilBuf, NilBuf, "")]
    /\ UNCHANGED <<shared, stack>>

\* lines 179-185: the length checks
Decaps179(g) ==
    /\ gor[g].op = "DecapsulateTo" /\ gor[g].pc = "179"
    /\ gor' = [gor EXCEPT ![g] =
                 IF gor[g].ct.len # CiphertextSize
                 THEN [@ EXCEPT !.pc = "panicked", !.panic = PanicCt]
                 ELSE IF gor[g].ss.len # SharedKeySize
                 THEN [@ EXCEPT !.pc = "panicked", !.panic = PanicSs]
                 ELSE [@ EXCEPT !.pc = "189"]]
    /\ UNCHANGED <<shared, stack>>

\* lines 188-189: sk.sk.DecryptTo(m2[:], ct)
Decaps189(g) ==
    /\ gor[g].op = "DecapsulateTo" /\ gor[g].pc = "189"
    /\ stack' = [stack EXCEPT
                    ![Slot(g)].m = CpapkeDecrypt(shared.sk.sk, gor[g].ct.parts)]
    /\ gor' = [gor EXCEPT ![g].pc = "193"]
    /\ UNCHANGED shared

\* lines 192-196: (K'', r') = G(m' || H(pk))
Decaps193(g) ==
    /\ gor[g].op = "DecapsulateTo" /\ gor[g].pc = "193"
    /\ stack' = [stack EXCEPT
                    ![Slot(g)].krLo = Hash512Lo(Cat(Local(g).m, shared.sk.hpk)),
                    ![Slot(g)].krHi = Hash512Hi(Cat(Local(g).m, shared.sk.hpk))]
    /\ gor' = [gor EXCEPT ![g].pc = "200"]
    /\ UNCHANGED shared

\* lines 199-200: sk.pk.EncryptTo(ct2[:], m2[:], kr2[32:])
Decaps200(g) ==
    /\ gor[g].op = "DecapsulateTo" /\ gor[g].pc = "200"
    /\ stack' = [stack EXCEPT
                    ![Slot(g)].ct2 = CpapkeEncrypt(shared.sk.pk, Local(g).m, Local(g).krHi)]
    /\ gor' = [gor EXCEPT ![g].pc = IF nist THEN "206" ELSE "221"]
    /\ UNCHANGED shared

\* lines 203-209 (standardized): ss2 = PRF(z || c)
Decaps206(g) ==
    /\ gor[g].op = "DecapsulateTo" /\ gor[g].pc = "206"
    /\ stack' = [stack EXCEPT
                    ![Slot(g)].ss2 = Shake256(Cat(shared.sk.z, Flat(gor[g].ct.parts)))]
    /\ gor' = [gor EXCEPT ![g].pc = "212"]
    /\ UNCHANGED shared

\* lines 212-216 (standardized): ss2 becomes K'' if c = c'
Decaps212(g) ==
    /\ gor[g].op = "DecapsulateTo" /\ gor[g].pc = "212"
    /\ stack' = [stack EXCEPT
                    ![Slot(g)].ss2 = ConstantTimeCopy(
                                ConstantTimeCompare(gor[g].ct.parts, Local(g).ct2),
                                Local(g).ss2, Local(g).krLo)]
    /\ gor' = [gor EXCEPT ![g].pc = "218"]
    /\ UNCHANGED shared

\* line 218 (standardized): copy(ss, ss2[:])
Decaps218(g) ==
    /\ gor[g].op = "DecapsulateTo" /\ gor[g].pc = "218"
    /\ gor' = [gor EXCEPT ![g].ss = Buf(@.len, <<Local(g).ss2>>), ![g].pc = "done"]
    /\ UNCHANGED <<shared, stack>>

\* lines 221-223 (pre-standard): H(c) into the second half of kr2
Decaps221(g) ==
    /\ gor[g].op = "DecapsulateTo" /\ gor[g].pc = "221"
    /\ stack' = [stack EXCEPT
                    ![Slot(g)].krHi = Hash256(Flat(gor[g].ct.parts))]
    /\ gor' = [gor EXCEPT ![g].pc = "226"]
    /\ UNCHANGED shared

\* lines 226-230 (pre-standard): z replaces K'' if c # c'
Decaps226(g) ==
    /\ gor[g].op = "DecapsulateTo" /\ gor[g].pc = "226"
    /\ stack' = [stack EXCEPT
                    ![Slot(g)].krLo = ConstantTimeCopy(
                                 1 - ConstantTimeCompare(gor[g].ct.parts, Local(g).ct2),
                                 Local(g).krLo, shared.sk.z)]
    /\ gor' = [gor EXCEPT ![g].pc = "233"]
    /\ UNCHANGED shared

\* lines 233-235 (pre-standard): K = KDF(kr2) read into ss
Decaps233(g) ==
    /\ gor[g].op = "DecapsulateTo" /\ gor[g].pc = "233"
    /\ gor' = [gor EXCEPT
                 ![g].ss = Buf(@.len, <<Shake256(Cat(Local(g).krLo, Local(g).krHi))>>),
                 ![g].pc = "done"]
    /\ UNCHANGED <<shared, stack>>

\* go pk.EncapsulateTo(ct, ss, seed) with a seed
GoEncapsulateTo(g) ==
    /\ gor[g].op = "" /\ gor[g].pc = "idle"
    /\ \E seed \in GoSeedBufs :
        gor' = [gor EXCEPT ![g] = Frame("EncapsulateTo", "119",
                                        Zeroed(CiphertextSize),
                                        Zeroed(SharedKeySize), seed, NilBuf, "")]
    /\ UNCHANGED <<shared, stack>>

\* lines 119-136: the length checks
Encaps119(g) ==
    /\ gor[g].op = "EncapsulateTo" /\ gor[g].pc = "119"
    /\ gor' = [gor EXCEPT ![g] =
                 IF gor[g].seed.len # EncapsulationSeedSize
                 THEN [@ EXCEPT !.pc = "panicked", !.panic = PanicSeedEnc]
                 ELSE IF gor[g].ct.len # CiphertextSize
                 THEN [@ EXCEPT !.pc = "panicked", !.panic = PanicCt]
                 ELSE IF gor[g].ss.len # SharedKeySize
                 THEN [@ EXCEPT !.pc = "panicked", !.panic = PanicSs]
                 ELSE [@ EXCEPT !.pc = "138"]]
    /\ UNCHANGED <<shared, stack>>

\* lines 138-146: m is the seed (standardized) or its hash (pre-standard)
Encaps138(g) ==
    /\ gor[g].op = "EncapsulateTo" /\ gor[g].pc = "138"
    /\ stack' = [stack EXCEPT
                    ![Slot(g)].m = IF nist THEN gor[g].seed.parts[1]
                          ELSE Hash256(gor[g].seed.parts[1])]
    /\ gor' = [gor EXCEPT ![g].pc = "149"]
    /\ UNCHANGED shared

\* lines 149-153: (K', r) = G(m || H(pk))
Encaps149(g) ==
    /\ gor[g].op = "EncapsulateTo" /\ gor[g].pc = "149"
    /\ stack' = [stack EXCEPT
                    ![Slot(g)].krLo = Hash512Lo(Cat(Local(g).m, shared.pk.hpk)),
                    ![Slot(g)].krHi = Hash512Hi(Cat(Local(g).m, shared.pk.hpk))]
    /\ gor' = [gor EXCEPT ![g].pc = "156"]
    /\ UNCHANGED shared

\* line 156: pk.pk.EncryptTo(ct, m[:], kr[32:])
Encaps156(g) ==
    /\ gor[g].op = "EncapsulateTo" /\ gor[g].pc = "156"
    /\ gor' = [gor EXCEPT
                 ![g].ct = Buf(@.len, CpapkeEncrypt(shared.pk.pk, Local(g).m,
                                                    Local(g).krHi)),
                 ![g].pc = IF nist THEN "159" ELSE "162"]
    /\ UNCHANGED <<shared, stack>>

\* line 159 (standardized): copy(ss, kr[:SharedKeySize])
Encaps159(g) ==
    /\ gor[g].op = "EncapsulateTo" /\ gor[g].pc = "159"
    /\ gor' = [gor EXCEPT ![g].ss = Buf(@.len, <<Local(g).krLo>>), ![g].pc = "done"]
    /\ UNCHANGED <<shared, stack>>

\* lines 162-164 (pre-standard): H(c) into the second half of kr
Encaps162(g) ==
    /\ gor[g].op = "EncapsulateTo" /\ gor[g].pc = "162"
    /\ stack' = [stack EXCEPT
                    ![Slot(g)].krHi = Hash256(Flat(gor[g].ct.parts))]
    /\ gor' = [gor EXCEPT ![g].pc = "167"]
    /\ UNCHANGED shared

\* lines 167-169 (pre-standard): K = KDF(K' || H(c)) read into ss
Encaps167(g) ==
    /\ gor[g].op = "EncapsulateTo" /\ gor[g].pc = "167"
    /\ gor' = [gor EXCEPT
                 ![g].ss = Buf(@.len, <<Shake256(Cat(Local(g).krLo, Local(g).krHi))>>),
                 ![g].pc = "done"]
    /\ UNCHANGED <<shared, stack>>

\* go sk.Pack(buf)
GoPack(g) ==
    /\ gor[g].op = "" /\ gor[g].pc = "idle"
    /\ \E n \in {PrivateKeySize, PrivateKeySize - 1} :
        gor' = [gor EXCEPT ![g] = Frame("PrivateKey.Pack", "243", NilBuf, NilBuf,
                                        NilBuf, Zeroed(n), "")]
    /\ UNCHANGED <<shared, stack>>

\* lines 243-245: the length check
Pack243(g) ==
    /\ gor[g].op = "PrivateKey.Pack" /\ gor[g].pc = "243"
    /\ gor' = [gor EXCEPT ![g] =
                 IF gor[g].buf.len # PrivateKeySize
                 THEN [@ EXCEPT !.pc = "panicked", !.panic = PanicPrivBuf]
                 ELSE [@ EXCEPT !.pc = "247"]]
    /\ UNCHANGED <<shared, stack>>

\* the field written at each of lines 247, 249, 251 and 253, and the
\* statement that follows
PackStep(pc) ==
    CASE pc = "247" -> [field |-> CpapkePack(shared.sk.sk), next |-> "249"]
      [] pc = "249" -> [field |-> CpapkePack(shared.sk.pk), next |-> "251"]
      [] pc = "251" -> [field |-> shared.sk.hpk, next |-> "253"]
      [] pc = "253" -> [field |-> shared.sk.z, next |-> "done"]

\* lines 247-253: the four fields written one after the other
PackWrite(g) ==
    /\ gor[g].op = "PrivateKey.Pack"
    /\ gor[g].pc \in {"247", "249", "251", "253"}
    /\ gor' = [gor EXCEPT
                 ![g].buf = Buf(@.len, Append(@.parts, PackStep(gor[g].pc).field)),
                 ![g].pc = PackStep(gor[g].pc).next]
    /\ UNCHANGED <<shared, stack>>

\* the call of g returns, or its panic is recovered, and its frame is popped
GoReturn(g) ==
    /\ gor[g].pc \in {"done", "panicked"}
    /\ gor' = [gor EXCEPT ![g] = NoFrame]
    /\ stack' = [stack EXCEPT ![Slot(g)] = NoLocals]
    /\ UNCHANGED shared

NextGo ==
    \E g \in 1..NumGoroutines :
        \/ GoDecapsulateTo(g)
        \/ Decaps179(g)
        \/ Decaps189(g)
        \/ Decaps193(g)
        \/ Decaps200(g)
        \/ Decaps206(g)
        \/ Decaps212(g)
        \/ Decaps218(g)
        \/ Decaps221(g)
        \/ Decaps226(g)
        \/ Decaps233(g)
        \/ GoEncapsulateTo(g)
        \/ Encaps119(g)
        \/ Encaps138(g)
        \/ Encaps149(g)
        \/ Encaps156(g)
        \/ Encaps159(g)
        \/ Encaps162(g)
        \/ Encaps167(g)
        \/ GoPack(g)
        \/ Pack243(g)
        \/ PackWrite(g)
        \/ GoReturn(g)

Init == InitKem /\ InitSS /\ InitNoGo
Next == NextKem /\ UNCHANGED ssVars /\ UNCHANGED <<shared, gor, stack>>
Spec == Init /\ [][Next]_vars

\* the secret sharing package on its own
InitSharing == InitKem /\ nist /\ InitSS /\ InitNoGo
NextSharing == NextSS /\ UNCHANGED kemVars /\ UNCHANGED <<shared, gor, stack>>
SpecSS == InitSharing /\ [][NextSharing]_vars

\* goroutines using one key at the same time
InitShared ==
    /\ InitKem /\ InitSS
    /\ shared \in SharedKeys
    /\ gor = [g \in 1..NumGoroutines |-> NoFrame]
    /\ stack = [g \in 1..NumGoroutines |-> NoLocals]
NextShared == NextGo /\ UNCHANGED kemVars /\ UNCHANGED ssVars
SpecGo == InitShared /\ [][NextShared]_vars

(***************************************************************************)
(* Properties.                                                             *)
(***************************************************************************)
\* the seeds NewKeyFromSeed accepts
ValidKeySeeds == {seed \in KeySeedBufs : seed.len = KeySeedSize}
\* (pk, sk) is a key pair NewKeyFromSeed returns on a valid seed
IsKeyPair(pk, sk) ==
    \E seed \in ValidKeySeeds :
        NewKeyFromSeed(seed).pk = pk /\ NewKeyFromSeed(seed).sk = sk

\* C1: in both variants, decapsulating with the private key of a pair made by
\* NewKeyFromSeed the ciphertext that encapsulation to the pair's public key
\* wrote yields exactly the shared key that encapsulation wrote.
C1_DecapsulateRecoversSharedKey ==
    (Decapsulated /\ wire.set /\ IsKeyPair(wire.pk, priv) /\ last.ct = wire.ct)
        => last.ss = wire.ss

C1_Witness ==
    /\ Decapsulated /\ last.op = "DecapsulateTo"
    /\ wire.set /\ IsKeyPair(wire.pk, priv) /\ last.ct = wire.ct
    /\ last.ss = wire.ss /\ last.ss.len = SharedKeySize

\* the re-encryption c' DecapsulateTo compares the ciphertext c with
Reencrypted(sk, c) ==
    LET m2 == CpapkeDecrypt(sk.sk, c)
    IN CpapkeEncrypt(sk.pk, m2, Hash512Hi(Cat(m2, sk.hpk)))
\* the value released when c = c'
RealValue(sk, c) ==
    LET K2 == Hash512Lo(Cat(CpapkeDecrypt(sk.sk, c), sk.hpk))
    IN IF nist THEN K2 ELSE Shake256(Cat(K2, Hash256(Flat(c))))
\* the value substituted when c # c'
RejectionValue(sk, c) ==
    IF nist THEN Shake256(Cat(sk.z, Flat(c)))
    ELSE Shake256(Cat(sk.z, Hash256(Flat(c))))

\* C2: implicit rejection. For every private key and every ciphertext of
\* length CiphertextSize, decapsulation writes the real derived value when
\* the ciphertext equals its re-encryption and otherwise the value computed
\* from z and the original ciphertext; it is SharedKeySize bytes long, and
\* decapsulating the same ciphertext again writes the same value.
C2_ImplicitRejection ==
    Decapsulated =>
        /\ last.ss.len = SharedKeySize
        /\ last.ss.parts =
             <<IF last.ct.parts = Reencrypted(priv, last.ct.parts)
               THEN RealValue(priv, last.ct.parts)
               ELSE RejectionValue(priv, last.ct.parts)>>
        /\ prev.set => prev.ss = last.ss

C2_Witness ==
    /\ Decapsulated /\ prev.set
    /\ last.ct.parts # Reencrypted(priv, last.ct.parts)
    /\ last.ss.parts = <<RejectionValue(priv, last.ct.parts)>>
    /\ prev.ss = last.ss

\* C3: tamper detection. With a key pair made by NewKeyFromSeed, decapsulating
\* any ciphertext of length CiphertextSize that differs from the one
\* encapsulation wrote yields a SharedKeySize-byte value different from the
\* shared key encapsulation wrote.
C3_TamperedCiphertextGivesOtherKey ==
    (Decapsulated /\ wire.set /\ IsKeyPair(wire.pk, priv)
     /\ last.ct.len = CiphertextSize /\ last.ct # wire.ct)
        => (last.ss.len = SharedKeySize /\ last.ss # wire.ss)

C3_Witness ==
    /\ Decapsulated /\ wire.set /\ IsKeyPair(wire.pk, priv)
    /\ last.ct.parts = <<wire.ct.parts[1], wire.ct.parts[2], wire.ct.parts[3], <<"1">>>>
    /\ last.ss.len = SharedKeySize /\ last.ss # wire.ss
    /\ prev.set /\ prev.ss = last.ss

\* the call was given a seed, ciphertext, shared-key or packed-key buffer
\* that does not have the required size
WrongSize(c) ==
    \/ c.op \in {"NewKeyFromSeed", "DeriveKeyPair"} /\ c.seed.len # KeySeedSize
    \/ c.op = "EncapsulateTo"
       /\ \/ ~c.seed.isNil /\ c.seed.len # EncapsulationSeedSize
          \/ c.ct.len # CiphertextSize
          \/ c.ss.len # SharedKeySize
    \/ c.op = "EncapsulateDeterministically"
       /\ c.seed.len # EncapsulationSeedSize
    \/ c.op = "DecapsulateTo"
       /\ (c.ct.len # CiphertextSize \/ c.ss.len # SharedKeySize)
    \/ c.op = "Decapsulate" /\ c.ct.len # CiphertextSize
    \/ c.op \in {"PrivateKey.Pack", "PrivateKey.Unpack", "UnmarshalBinaryPrivateKey"}
       /\ c.buf.len # PrivateKeySize
    \/ c.op \in {"PublicKey.Pack", "PublicKey.Unpack", "UnmarshalBinaryPublicKey"}
       /\ c.buf.len # PublicKeySize

\* the call wrote nothing to the buffers it was to fill
NothingWritten(c) ==
    /\ c.op \in {"EncapsulateTo", "Encapsulate", "EncapsulateDeterministically"}
        => (c.ct.parts = <<>> /\ c.ss.parts = <<>>)
    /\ c.op \in {"DecapsulateTo", "Decapsulate"} => c.ss.parts = <<>>
    /\ c.op \in {"PrivateKey.Pack", "PublicKey.Pack"} => c.buf.parts = <<>>
    /\ ~c.got

\* C4: size enforcement. Every operation given a buffer one byte shorter or
\* longer than required fails with a size-mismatch failure before any hash,
\* PKE call or draw from the randomness source, writes nothing to an output
\* buffer and leaves the keys as they were.
C4_SizeEnforcement ==
    [][WrongSize(last') =>
          /\ (last'.panic \in SizeFailures \/ last'.err \in SizeFailures)
          /\ last'.work = NoWork
          /\ NothingWritten(last')
          /\ pub' = pub /\ priv' = priv]_vars

\* C5: in the standardized variant, for every buffer of PrivateKeySize bytes,
\* PrivateKey.Unpack and UnmarshalBinaryPrivateKey return ErrPrivKey (which is
\* not ErrPrivKeySize) exactly when the hash of the embedded public-key bytes
\* differs from the embedded hpk; then the facade returns no key, and
\* otherwise unpacking succeeds with no error.
C5_PrivateKeyValidation ==
    (nist /\ last.op \in {"PrivateKey.Unpack", "UnmarshalBinaryPrivateKey"}
     /\ last.buf.len = PrivateKeySize)
        => LET differs == Hash256(last.buf.parts[2]) # last.buf.parts[3]
           IN /\ ErrPrivKey # ErrPrivKeySize
              /\ last.err = ErrPrivKey <=> differs
              /\ (differs /\ last.op = "UnmarshalBinaryPrivateKey") => ~last.got
              /\ ~differs => (last.err = "" /\ last.panic = "" /\ last.got)

C5_Witness ==
    /\ nist /\ last.op = "UnmarshalBinaryPrivateKey"
    /\ last.buf.len = PrivateKeySize
    /\ last.buf.parts[3] = Flip(Hash256(last.buf.parts[2]))
    /\ last.err = ErrPrivKey /\ ~last.got

\* the facade calls that take a key of interface type
FacadeKeyCalls == {"Encapsulate", "EncapsulateDeterministically", "Decapsulate"}
\* the facade call returned no ciphertext and no shared key and did no work
NothingDone(c) ==
    /\ c.panic = ""
    /\ c.work = NoWork
    /\ c.ss = NilBuf
    /\ c.op # "Decapsulate" => c.ct = NilBuf

\* C6 as stated: a facade call with a key that is not of this scheme's key
\* type fails with the type-mismatch error whatever the other arguments are,
\* returns no ciphertext and no shared key and does no work.
C6_TypeMismatchWhateverTheArguments ==
    (last.op \in FacadeKeyCalls /\ ~last.isThis)
        => (last.err = ErrTypeMismatch /\ NothingDone(last))

\* C6 amended: a facade call with a key that is not of this scheme's key type
\* returns no ciphertext and no shared key and does no work; it fails with
\* the type-mismatch error, which is none of the size errors, when the seed
\* (EncapsulateDeterministically) or the ciphertext (Decapsulate) has the
\* required length, and with that argument's size error otherwise.
C6_TypeMismatchAfterSizeCheck ==
    (last.op \in FacadeKeyCalls /\ ~last.isThis)
        => /\ NothingDone(last)
           /\ ErrTypeMismatch \notin SizeFailures
           /\ last.err =
                IF last.op = "EncapsulateDeterministically"
                   /\ last.seed.len # EncapsulationSeedSize THEN ErrSeedSize
                ELSE IF last.op = "Decapsulate"
                        /\ last.ct.len # CiphertextSize THEN ErrCiphertextSize
                ELSE ErrTypeMismatch

C6_Witness ==
    /\ last.op = "EncapsulateDeterministically" /\ ~last.isThis
    /\ last.seed.len = EncapsulationSeedSize
    /\ last.err = ErrTypeMismatch /\ NothingDone(last)

\* C7: when the randomness source fails, GenerateKeyPair, EncapsulateTo
\* without a seed and the facade's Encapsulate report that error as an error
\* value (not a panic) and produce no key pair, ciphertext or shared key.
C7_RandomnessFailureIsAnError ==
    (last.op \in {"GenerateKeyPair", "EncapsulateTo", "Encapsulate"}
     /\ last.randFailed)
        => /\ last.panic = ""
           /\ last.err = ErrRand
           /\ NothingWritten(last)
           /\ last.work = Work(0, 0, 1)

\* what Pack writes for a key
PackedPublic(pk) == PublicKeyPack(pk, Zeroed(PublicKeySize)).buf
PackedPrivate(sk) == PrivateKeyPack(sk, Zeroed(PrivateKeySize)).buf
\* what encapsulating to pk with seed writes
Encapsulation(pk, seed) ==
    EncapsulateTo(pk, Zeroed(CiphertextSize), Zeroed(SharedKeySize), seed, RandFail)

\* C8: Pack/Unpack round trip. In both variants, for every key pair made by
\* NewKeyFromSeed, unpacking what Pack wrote succeeds and yields a key that
\* Equal reports equal to the original, with the same PKE key, hpk and z, and
\* encapsulating to the unpacked public key writes what encapsulating to the
\* original writes.
C8_PackUnpackRoundTrip ==
    \A seed \in ValidKeySeeds :
        LET k == NewKeyFromSeed(seed)
        IN /\ (last.op \in {"PublicKey.Unpack", "UnmarshalBinaryPublicKey"}
               /\ last.buf = PackedPublic(k.pk))
                => /\ last.panic = "" /\ last.err = "" /\ last.got
                   /\ PublicKeyEqual(pub, k.pk, TRUE)
                   /\ pub.pk = k.pk.pk /\ pub.hpk = k.pk.hpk
                   /\ \A e \in EncSeedBufs :
                        Encapsulation(pub, e) = Encapsulation(k.pk, e)
           /\ (last.op \in {"PrivateKey.Unpack", "UnmarshalBinaryPrivateKey"}
               /\ last.buf = PackedPrivate(k.sk))
                => /\ last.panic = "" /\ last.err = "" /\ last.got
                   /\ PrivateKeyEqual(priv, k.sk, TRUE)
                   /\ priv.sk = k.sk.sk /\ priv.pk = k.sk.pk
                   /\ priv.hpk = k.sk.hpk /\ priv.z = k.sk.z

C8_Witness ==
    /\ last.op = "PrivateKey.Unpack"
    /\ \E seed \in ValidKeySeeds :
        /\ last.buf = PackedPrivate(NewKeyFromSeed(seed).sk)
        /\ priv = NewKeyFromSeed(seed).sk
        /\ PrivateKeyEqual(priv, NewKeyFromSeed(seed).sk, TRUE)
    /\ last.err = "" /\ last.panic = ""

\* the IDs of a list of shares
IDs(shares) == [i \in 1..Len(shares) |-> shares[i].id]

\* C9: threshold recovery. After New(rnd, t, secret), Recover(t, shares)
\* returns the secret and no error for every list of more than t shares with
\* pairwise different non-zero IDs made by Share or ShareWithID, in any
\* order, and an error and no secret for a list of t or fewer shares.
C9_ThresholdRecovery ==
    rec.op = "Recover" =>
        /\ (Len(rec.shares) > ssh.t /\ AllDifferent(IDs(rec.shares)))
            => (~rec.err /\ ~rec.panic /\ rec.secret = ssh.poly[1])
        /\ Len(rec.shares) <= ssh.t
            => (rec.err /\ ~rec.panic /\ rec.secret = NoScalar)

C9_Witness ==
    /\ rec.op = "Recover" /\ ssh.t = MaxT
    /\ Len(rec.shares) > ssh.t + 1 /\ AllDifferent(IDs(rec.shares))
    /\ rec.shares[1].id > rec.shares[2].id
    /\ \E i \in 2..Len(ssh.poly) : ssh.poly[i] # 0
    /\ ssh.poly[1] # 0
    /\ ~rec.err /\ rec.secret = ssh.poly[1]

\* hpk is the hash of the packed PKE public key
HashCached(k) == k.hpk = Hash256(CpapkePack(k.pk))

\* C10: cached-hash invariant. In both variants every key a constructor path
\* produced without reporting an error has hpk = Hash256(pack(its PKE public
\* key)), whatever buffer of the right length it was built from.
C10_CachedHash ==
    last.got =>
        /\ last.op \in {"NewKeyFromSeed", "DeriveKeyPair", "GenerateKeyPair"}
            => (HashCached(pub) /\ HashCached(priv))
        /\ last.op \in {"PublicKey.Unpack", "UnmarshalBinaryPublicKey", "Public"}
            => HashCached(pub)
        /\ last.op \in {"PrivateKey.Unpack", "UnmarshalBinaryPrivateKey"}
            => HashCached(priv)


\* what the call of g writes when no other goroutine runs
Alone(f) ==
    CASE f.op = "DecapsulateTo" ->
            LET r == DecapsulateTo(shared.sk, Zeroed(f.ss.len), f.ct)
            IN [panic |-> r.panic, ct |-> f.ct, ss |-> r.ss, buf |-> NilBuf]
      [] f.op = "EncapsulateTo" ->
            LET r == EncapsulateTo(shared.pk, Zeroed(f.ct.len), Zeroed(f.ss.len),
                                   f.seed, NotRead)
            IN [panic |-> r.panic, ct |-> r.ct, ss |-> r.ss, buf |-> NilBuf]
      [] f.op = "PrivateKey.Pack" ->
            LET r == PrivateKeyPack(shared.sk, Zeroed(f.buf.len))
            IN [panic |-> r.panic, ct |-> NilBuf, ss |-> NilBuf, buf |-> r.buf]
\* the call of g has ended as it ends when run alone
AsAlone(f) ==
    /\ f.panic = Alone(f).panic
    /\ f.pc = "panicked" <=> Alone(f).panic # ""
    /\ f.ct = Alone(f).ct /\ f.ss = Alone(f).ss /\ f.buf = Alone(f).buf

\* C11: keys are read-only under use. No statement of DecapsulateTo,
\* EncapsulateTo or Pack changes a field of the key it is called on, and under
\* every interleaving of goroutines that call them on one shared key with
\* buffers of their own, each call that has ended has written what it writes
\* when run alone: the same shared key, ciphertext or packed key.
C11_KeysReadOnlyUnderUse ==
    [][/\ shared' = shared
       /\ \A g \in 1..NumGoroutines :
            gor'[g].pc \in {"done", "panicked"} => AsAlone(gor'[g])]_vars

\* two goroutines have decapsulated different ciphertexts with the shared
\* key at the same time, one accepted and one rejected, and another call has
\* been made before
C11_Witness ==
    /\ shared \in SharedKeys
    /\ gor[1].op = "DecapsulateTo" /\ gor[1].pc = "done" /\ gor[2].op = "DecapsulateTo" /\ gor[2].pc = "done"
    /\ gor[1].ct # gor[2].ct
    /\ gor[1].ct.parts = CpapkeEncrypt(shared.sk.pk, Local(1).m, Local(1).krHi)
    /\ gor[2].ct.parts # Local(2).ct2
    /\ gor[1].ss.parts # <<>> /\ gor[2].ss.parts # <<>>
    /\ gor[1].ss # gor[2].ss
    /\ AsAlone(gor[1]) /\ AsAlone(gor[2])

====
